---------------------------- MODULE Spec2Model ----------------------------
(***************************************************************************)
(* A model of wcurl-rs (src/src/main.rs): the argument parser, the URL     *)
(* whitespace encoder, the filename deriver with its percent-decoder, the  *)
(* curl version probe, the assembly of curl's argument list and the        *)
(* invocation.                                                             *)
(*                                                                         *)
(* Rust Strings are TLA+ strings; a char is a string of length 1.  A Vec   *)
(* is a sequence.  Rust indexes from 0 and TLA+ from 1: args[1] is the     *)
(* program name and the parser's index i starts at 2 where the code's      *)
(* starts at 1.  An Option is a sequence of length at most one.            *)
(***************************************************************************)
EXTENDS Integers, Sequences, FiniteSets, TLC

VARIABLES
    args,           \* main: env::args(), program name first
    pc,             \* where the run is: main, parse_args, exec_curl, build, invoke, exit
    i,              \* parse_args: index of the token being read
    reading_urls,   \* parse_args: the mode flag set by "--"
    config,         \* parse_args: the Config being filled
    probe_output,   \* get_curl_version: what starting `curl --version` gave, as an Option
    version,        \* exec_curl: the Option<(major, minor)> of the probe
    curl_args,      \* exec_curl: the argument list being built
    spawned,        \* every Command::new("curl") started, in order
    stdout,         \* what the run printed on standard output
    error,          \* the Err message main prints, as an Option
    exit_code,      \* the process's exit status, as an Option
    fn_name,        \* pure-function specifications: the function applied
    fn_in,          \* ... its string argument
    fn_decode,      \* ... its decode argument
    fn_out          \* ... its result

vars == <<args, pc, i, reading_urls, config, probe_output, version, curl_args,
          spawned, stdout, error, exit_code, fn_name, fn_in, fn_decode, fn_out>>

run_vars == <<args, pc, i, reading_urls, config, probe_output, version,
              curl_args, spawned, stdout, error, exit_code>>

fn_vars == <<fn_name, fn_in, fn_decode, fn_out>>

(***************************************************************************)
(* Strings                                                                 *)
(***************************************************************************)
Char(s, k) == SubSeq(s, k, k)

From(s, k) == SubSeq(s, k, Len(s))

SetMin(S) == CHOOSE x \in S : \A y \in S : x <= y

SetMax(S) == CHOOSE x \in S : \A y \in S : x >= y

\* The places where pat occurs in s.
Occurrences(s, pat) ==
    {k \in 1..(Len(s) - Len(pat) + 1) : SubSeq(s, k, k + Len(pat) - 1) = pat}

\* str::find: the first place where pat occurs, 0 for None.
Find(s, pat) ==
    IF Occurrences(s, pat) = {} THEN 0 ELSE SetMin(Occurrences(s, pat))

\* str::rfind: the last place where pat occurs, 0 for None.
RFind(s, pat) ==
    IF Occurrences(s, pat) = {} THEN 0 ELSE SetMax(Occurrences(s, pat))

\* str::starts_with
StartsWith(s, p) == Len(s) >= Len(p) /\ SubSeq(s, 1, Len(p)) = p

\* str::strip_prefix(p).unwrap(), called where starts_with(p) holds
StripPrefix(s, p) == From(s, Len(p) + 1)

\* str::replace: every match of `from`, left to right and not overlapping,
\* replaced by `to`.
RECURSIVE Replace(_, _, _)
Replace(s, from, to) ==
    LET p == Find(s, from) IN
    IF p = 0 THEN s
    ELSE SubSeq(s, 1, p - 1) \o to \o Replace(From(s, p + Len(from)), from, to)

\* str::split(pat): the pieces between the matches of pat, left to right.
RECURSIVE Split(_, _)
Split(s, pat) ==
    LET p == Find(s, pat) IN
    IF p = 0 THEN <<s>>
    ELSE <<SubSeq(s, 1, p - 1)>> \o Split(From(s, p + Len(pat)), pat)

\* The strings over alphabet A of length at most n.
RECURSIVE Strings(_, _)
Strings(A, n) ==
    IF n = 0 THEN {""}
    ELSE LET S == Strings(A, n - 1) IN S \cup {s \o c : s \in S, c \in A}

(***************************************************************************)
(* encode_whitespace                                                       *)
(***************************************************************************)
encode_whitespace_first(url) ==
    LET p == Find(url, " ") IN
    IF p = 0 THEN url ELSE SubSeq(url, 1, p - 1) \o "%20" \o From(url, p + 1)

encode_whitespace(url) == Replace(url, " ", "%20")

(***************************************************************************)
(* percent_decode                                                          *)
(***************************************************************************)
HexLower == "0123456789abcdef"

HexUpper == "0123456789ABCDEF"

\* char::to_digit(16), -1 for None
ToDigit(c) ==
    IF Find(HexLower, c) > 0 THEN Find(HexLower, c) - 1
    ELSE IF Find(HexUpper, c) > 0 THEN Find(HexUpper, c) - 1
    ELSE -1

\* u8::from_str_radix(hex_str, 16) on a string of two chars, -1 for Err.
\* An unsigned parse takes one leading "+" and then needs a digit.
FromStrRadix16(hex_str) ==
    LET h1 == Char(hex_str, 1)
        h2 == Char(hex_str, 2)
    IN  IF h1 = "+"
        THEN ToDigit(h2)
        ELSE IF ToDigit(h1) >= 0 /\ ToDigit(h2) >= 0
             THEN 16 * ToDigit(h1) + ToDigit(h2)
             ELSE -1

\* str::to_uppercase, on the strings is_unsafe_percent_encode is given:
\* those from_str_radix accepted, whose only letters are a-f and A-F.
RECURSIVE ToUppercase(_)
ToUppercase(s) ==
    IF s = "" THEN ""
    ELSE LET c == Char(s, 1)
             p == Find(HexLower, c)
         IN  (IF p > 0 THEN Char(HexUpper, p) ELSE c) \o ToUppercase(From(s, 2))

is_unsafe_percent_encode(hex) ==
    LET upper == ToUppercase(hex) IN upper = "2F" \/ upper = "5C"

\* The chars U+0020..U+005F and U+0061..U+007E, in code order.
AsciiLow == " !\"#$%&'()*+,-./0123456789:;<=>?@ABCDEFGHIJKLMNOPQRSTUVWXYZ[\\]^_"

AsciiHigh == "abcdefghijklmnopqrstuvwxyz{|}~"

\* byte as char, for a byte >= 0x20: the char U+0020..U+00FF of that code.
\* The backquote U+0060 and U+007F..U+00FF have no TLA+ string literal and
\* are written <U+00XX>.
AsChar(byte) ==
    IF byte <= 95 THEN Char(AsciiLow, byte - 31)
    ELSE IF byte >= 97 /\ byte <= 126 THEN Char(AsciiHigh, byte - 96)
    ELSE "<U+00" \o Char(HexUpper, (byte \div 16) + 1)
                 \o Char(HexUpper, (byte % 16) + 1) \o ">"

\* The loop of percent_decode: s is what the chars iterator has left.
RECURSIVE percent_decode(_)
percent_decode(s) ==
    IF s = "" THEN ""
    ELSE IF Char(s, 1) = "%"
    THEN IF Len(s) >= 3
         THEN LET h1 == Char(s, 2)
                  h2 == Char(s, 3)
                  hex_str == h1 \o h2
                  byte == FromStrRadix16(hex_str)
              IN  IF byte >= 0 /\ byte >= 32 /\ ~is_unsafe_percent_encode(hex_str)
                  THEN AsChar(byte) \o percent_decode(From(s, 4))
                  ELSE "%" \o h1 \o h2 \o percent_decode(From(s, 4))
         ELSE \* hex2 is None: the iterator is exhausted
              "%" \o (IF Len(s) = 2 THEN Char(s, 2) ELSE "")
    ELSE Char(s, 1) \o percent_decode(From(s, 2))

(***************************************************************************)
(* get_url_filename                                                        *)
(***************************************************************************)
get_url_filename(url, decode) ==
    LET parts == Split(url, "//")
        url_without_protocol == IF Len(parts) >= 2 THEN parts[2] ELSE url
        url_without_query == Split(url_without_protocol, "?")[1]
        last_slash_pos == RFind(url_without_query, "/")
        filename == From(url_without_query, last_slash_pos + 1)
    IN  IF last_slash_pos > 0 /\ filename # ""
        THEN IF decode THEN percent_decode(filename) ELSE filename
        ELSE "index.html"

(***************************************************************************)
(* get_curl_version                                                        *)
(***************************************************************************)
IsWhitespace(c) == c \in {" ", "\t", "\n", "\r", "\f"}

\* str::split_whitespace: the non-empty runs of non-whitespace chars.
\* word is the run being read.
RECURSIVE SplitWhitespace(_, _)
SplitWhitespace(s, word) ==
    IF s = "" THEN (IF word = "" THEN <<>> ELSE <<word>>)
    ELSE IF IsWhitespace(Char(s, 1))
         THEN (IF word = "" THEN <<>> ELSE <<word>>) \o SplitWhitespace(From(s, 2), "")
         ELSE SplitWhitespace(From(s, 2), word \o Char(s, 1))

\* str::lines().next(): <<>> for None; the line's end "\n" or "\r\n" is
\* not part of it.
FirstLine(s) ==
    IF s = "" THEN <<>>
    ELSE LET line == Split(s, "\n")[1]
             n == Len(line)
         IN  IF Find(s, "\n") > 0 /\ n > 0 /\ Char(line, n) = "\r"
             THEN <<SubSeq(line, 1, n - 1)>>
             ELSE <<line>>

Decimal == "0123456789"

RECURSIVE StripZeros(_)
StripZeros(s) ==
    IF Len(s) > 1 /\ Char(s, 1) = "0" THEN StripZeros(From(s, 2)) ELSE s

RECURSIVE DecimalValue(_)
DecimalValue(s) ==
    IF s = "" THEN 0
    ELSE 10 * DecimalValue(SubSeq(s, 1, Len(s) - 1))
         + (Find(Decimal, Char(s, Len(s))) - 1)

\* str::parse::<u32>: -1 for Err.  One leading "+" is taken; what follows
\* must be one or more decimal digits of a value below 2^32.
ParseU32(s) ==
    LET digits == IF Len(s) > 0 /\ Char(s, 1) = "+" THEN From(s, 2) ELSE s
        z == StripZeros(digits)
    IN  IF digits = "" \/ \E k \in 1..Len(digits) : Find(Decimal, Char(digits, k)) = 0
        THEN -1
        ELSE IF Len(z) > 10 THEN -1
        ELSE IF Len(z) = 10
                /\ \/ DecimalValue(SubSeq(z, 1, 9)) > 429496729
                   \/ DecimalValue(SubSeq(z, 1, 9)) = 429496729
                      /\ DecimalValue(Char(z, 10)) > 5
             THEN -1
        ELSE DecimalValue(z)

Ok(v) == [ok |-> TRUE, val |-> v, err |-> ""]

Err(e) == [ok |-> FALSE, val |-> <<>>, err |-> e]

\* out is what Command::new("curl").arg("--version").output() gave:
\* whether curl could be started, and its standard output.
get_curl_version(out) ==
    IF ~out.launched THEN Err("Failed to execute curl")
    ELSE IF FirstLine(out.stdout) = <<>> THEN Err("No version output")
    ELSE LET first_line == FirstLine(out.stdout)[1]
             parts == SplitWhitespace(first_line, "")
         IN  IF Len(parts) < 2 THEN Err("Could not parse curl version")
             ELSE LET version_parts == Split(parts[2], ".") IN
                  IF Len(version_parts) < 2 THEN Err("Invalid version format")
                  ELSE IF ParseU32(version_parts[1]) < 0
                       THEN Err("Invalid major version")
                  ELSE IF ParseU32(version_parts[2]) < 0
                       THEN Err("Invalid minor version")
                  ELSE Ok(<<ParseU32(version_parts[1]), ParseU32(version_parts[2])>>)

(***************************************************************************)
(* exec_curl: the argument list                                            *)
(***************************************************************************)
\* The flags pushed before the loop over the URLs.
parallel_flags(n_urls, major, minor) ==
    IF n_urls >= 2
    THEN IF major >= 8 \/ (major = 7 /\ minor >= 66)
         THEN <<"--parallel">>
              \o (IF major >= 8 /\ minor >= 16
                  THEN <<"--parallel-max-host", "5">>
                  ELSE <<>>)
         ELSE <<>>
    ELSE <<>>

per_url_params ==
    <<"--fail", "--globoff", "--location", "--proto-default", "https",
      "--remote-time", "--retry", "5">>

use_no_clobber(major, minor) == major >= 8 \/ (major = 7 /\ minor >= 83)

\* The output destination of one URL.
output(cfg, url) ==
    IF cfg.has_user_set_output
    THEN (IF cfg.output_path # <<>> THEN cfg.output_path[1] ELSE "index.html")
    ELSE get_url_filename(url, cfg.decode_filename)

next_separator_always(idx) == <<"--next">>

\* What the loop pushes first for the URL of place idx (idx > 0 in the
\* code, whose places start at 0).
next_separator(idx) == IF idx > 1 THEN <<"--next">> ELSE <<>>

\* One pass of the loop over config.urls.
url_block(cfg, major, minor, idx) ==
    next_separator(idx)
    \o per_url_params
    \o (IF use_no_clobber(major, minor) THEN <<"--no-clobber">> ELSE <<>>)
    \o <<"--output", output(cfg, cfg.urls[idx])>>
    \o cfg.curl_options
    \o <<cfg.urls[idx]>>

RECURSIVE url_loop(_, _, _, _)
url_loop(cfg, major, minor, idx) ==
    IF idx > Len(cfg.urls) THEN <<>>
    ELSE url_block(cfg, major, minor, idx) \o url_loop(cfg, major, minor, idx + 1)

build_curl_args(cfg, major, minor) ==
    parallel_flags(Len(cfg.urls), major, minor) \o url_loop(cfg, major, minor, 1)

\* The line the dry run prints: "curl" and each argument after a space.
RECURSIVE command_line(_)
command_line(cargs) ==
    IF cargs = <<>> THEN "curl"
    ELSE command_line(SubSeq(cargs, 1, Len(cargs) - 1)) \o " " \o cargs[Len(cargs)]

(***************************************************************************)
(* The inputs of a run                                                     *)
(***************************************************************************)
MaxArgs == 3

PROGRAM_NAME == "wcurl"

VERSION == "2025.11.09-rust"

\* The tokens the argument lists are made of: one for each arm of the
\* parser.
Tokens ==
    {"-h", "-V", "--dry-run", "--no-decode-filename", "--curl-options",
     "--curl-options=--next", "-o", "--output=f", "-Og", "--", "-k", "a b"}

\* The argument lists of at most MaxArgs of the tokens.
ArgLists(tokens) == UNION {[1..n -> tokens] : n \in 0..MaxArgs}

Printed(outs) == {[launched |-> TRUE, stdout |-> o] : o \in outs}

\* What `curl --version` may do: fail to start, or print: nothing, a first
\* line without a version, a version get_curl_version cannot read, a
\* version.
ProbeOutputs ==
    {[launched |-> FALSE, stdout |-> ""]}
    \cup Printed({"", "curl", "curl 8", "curl x.16.0", "curl 8.x", "curl 7.65.0",
                  "curl 8.16.0 (x86_64-pc-linux-gnu) libcurl/8.16.0\nRelease-Date: 2025-09-10"})

\* What running curl on the argument list may do: fail to start, or end
\* with an exit status.
RunOutcomes == {"launch failed", "exit status: 0", "exit status: 22"}

Usage == "usage"

\* Config::new
ConfigNew ==
    [curl_options |-> <<>>, urls |-> <<>>, output_path |-> <<>>,
     has_user_set_output |-> FALSE, decode_filename |-> TRUE, dry_run |-> FALSE]

RunInit(lists) ==
    /\ args \in {<<PROGRAM_NAME>> \o l : l \in lists}
    /\ pc = "main"
    /\ i = 2
    /\ reading_urls = FALSE
    /\ config = ConfigNew
    /\ probe_output = <<>>
    /\ version = <<>>
    /\ curl_args = <<>>
    /\ spawned = <<>>
    /\ stdout = <<>>
    /\ error = <<>>
    /\ exit_code = <<>>

FnIdle ==
    /\ fn_name = ""
    /\ fn_in = ""
    /\ fn_decode = FALSE
    /\ fn_out = ""

Init == RunInit(ArgLists(Tokens)) /\ FnIdle

(***************************************************************************)
(* main and parse_args                                                     *)
(***************************************************************************)
\* exit(code) after printing line on standard output
ExitPrinting(line, code) ==
    /\ stdout' = Append(stdout, line)
    /\ exit_code' = <<code>>
    /\ pc' = "exit"
    /\ UNCHANGED error

\* A function returned Err(e): main prints the error and exits with 1.
ExitErr(e) ==
    /\ error' = <<e>>
    /\ exit_code' = <<1>>
    /\ pc' = "exit"
    /\ UNCHANGED stdout

Main ==
    /\ pc = "main"
    /\ IF Len(args) < 2
       THEN ExitPrinting(Usage, 1)
       ELSE pc' = "parse_args" /\ UNCHANGED <<stdout, exit_code, error>>
    /\ UNCHANGED <<args, i, reading_urls, config, probe_output, version,
                   curl_args, spawned, fn_vars>>

\* The loop of parse_args is at a token.
AtToken == pc = "parse_args" /\ i <= Len(args)

arg == args[i]

ExactOptions ==
    {"-h", "--help", "-V", "--version", "--dry-run", "--no-decode-filename",
     "--curl-options", "-o", "-O", "--output", "--"}

\* The match falls to its default arm.
AtOtherToken == AtToken /\ ~reading_urls /\ arg \notin ExactOptions

PushUrl(url) == config' = [config EXCEPT !.urls = Append(@, encode_whitespace(url))]

SetOutputKeepFirst(path) ==
    config' = [config EXCEPT !.has_user_set_output = TRUE,
                             !.output_path = IF @ = <<>> THEN <<path>> ELSE @]

SetOutput(path) ==
    config' = [config EXCEPT !.has_user_set_output = TRUE,
                             !.output_path = <<path>>]

PushCurlOptionFront(opt) ==
    config' = [config EXCEPT !.curl_options = <<opt>> \o @]

PushCurlOption(opt) ==
    config' = [config EXCEPT !.curl_options = Append(@, opt)]

ParseKeeps == UNCHANGED <<args, probe_output, version, curl_args, spawned, fn_vars>>

ParseGoesOn == UNCHANGED <<pc, stdout, error, exit_code>>

ParseReadingUrls ==
    /\ AtToken /\ reading_urls
    /\ PushUrl(arg)
    /\ i' = i + 1
    /\ UNCHANGED reading_urls /\ ParseGoesOn /\ ParseKeeps

ParseHelp ==
    /\ AtToken /\ ~reading_urls /\ arg \in {"-h", "--help"}
    /\ ExitPrinting(Usage, 0)
    /\ UNCHANGED <<i, reading_urls, config>> /\ ParseKeeps

ParseVersion ==
    /\ AtToken /\ ~reading_urls /\ arg \in {"-V", "--version"}
    /\ ExitPrinting(VERSION, 0)
    /\ UNCHANGED <<i, reading_urls, config>> /\ ParseKeeps

ParseDryRun ==
    /\ AtToken /\ ~reading_urls /\ arg = "--dry-run"
    /\ config' = [config EXCEPT !.dry_run = TRUE]
    /\ i' = i + 1
    /\ UNCHANGED reading_urls /\ ParseGoesOn /\ ParseKeeps

ParseNoDecodeFilename ==
    /\ AtToken /\ ~reading_urls /\ arg = "--no-decode-filename"
    /\ config' = [config EXCEPT !.decode_filename = FALSE]
    /\ i' = i + 1
    /\ UNCHANGED reading_urls /\ ParseGoesOn /\ ParseKeeps

ParseCurlOptions ==
    /\ AtToken /\ ~reading_urls /\ arg = "--curl-options"
    /\ IF i + 1 > Len(args)
       THEN /\ ExitErr("--curl-options requires an argument")
            /\ i' = i + 1
            /\ UNCHANGED config
       ELSE /\ PushCurlOption(args[i + 1])
            /\ i' = i + 2
            /\ ParseGoesOn
    /\ UNCHANGED reading_urls /\ ParseKeeps

ParseOutput ==
    /\ AtToken /\ ~reading_urls /\ arg \in {"-o", "-O", "--output"}
    /\ IF i + 1 > Len(args)
       THEN /\ ExitErr(arg \o " requires an argument")
            /\ i' = i + 1
            /\ UNCHANGED config
       ELSE /\ SetOutput(args[i + 1])
            /\ i' = i + 2
            /\ ParseGoesOn
    /\ UNCHANGED reading_urls /\ ParseKeeps

SeparatorLeavesMode == reading_urls' = reading_urls

SeparatorSetsMode == reading_urls' = TRUE

ParseSeparator ==
    /\ AtToken /\ ~reading_urls /\ arg = "--"
    /\ SeparatorSetsMode
    /\ i' = i + 1
    /\ UNCHANGED config /\ ParseGoesOn /\ ParseKeeps

ParseCurlOptionsEq ==
    /\ AtOtherToken
    /\ StartsWith(arg, "--curl-options=")
    /\ PushCurlOption(StripPrefix(arg, "--curl-options="))
    /\ i' = i + 1
    /\ UNCHANGED reading_urls /\ ParseGoesOn /\ ParseKeeps

ParseOutputEq ==
    /\ AtOtherToken
    /\ ~StartsWith(arg, "--curl-options=")
    /\ StartsWith(arg, "--output=")
    /\ SetOutput(StripPrefix(arg, "--output="))
    /\ i' = i + 1
    /\ UNCHANGED reading_urls /\ ParseGoesOn /\ ParseKeeps

ParseOutputGlued ==
    /\ AtOtherToken
    /\ ~StartsWith(arg, "--curl-options=")
    /\ ~StartsWith(arg, "--output=")
    /\ StartsWith(arg, "-o") \/ StartsWith(arg, "-O")
    /\ SetOutput(From(arg, 3))
    /\ i' = i + 1
    /\ UNCHANGED reading_urls /\ ParseGoesOn /\ ParseKeeps

ParseUnknownOption ==
    /\ AtOtherToken
    /\ ~StartsWith(arg, "--curl-options=")
    /\ ~StartsWith(arg, "--output=")
    /\ ~(StartsWith(arg, "-o") \/ StartsWith(arg, "-O"))
    /\ StartsWith(arg, "-")
    /\ ExitErr("Unknown option: '" \o arg \o "'")
    /\ UNCHANGED <<i, reading_urls, config>> /\ ParseKeeps

ParseUrl ==
    /\ AtOtherToken
    /\ ~StartsWith(arg, "--curl-options=")
    /\ ~StartsWith(arg, "--output=")
    /\ ~(StartsWith(arg, "-o") \/ StartsWith(arg, "-O"))
    /\ ~StartsWith(arg, "-")
    /\ PushUrl(arg)
    /\ i' = i + 1
    /\ UNCHANGED reading_urls /\ ParseGoesOn /\ ParseKeeps

NoUrlError == "You must provide at least one URL to download."

ParseEndUnchecked == pc' = "exec_curl" /\ UNCHANGED <<stdout, error, exit_code>>

\* What parse_args does after its loop.
ParseEndCheck ==
    IF config.urls = <<>>
    THEN ExitErr(NoUrlError)
    ELSE pc' = "exec_curl" /\ UNCHANGED <<stdout, error, exit_code>>

ParseEnd ==
    /\ pc = "parse_args" /\ i > Len(args)
    /\ ParseEndCheck
    /\ UNCHANGED <<i, reading_urls, config>> /\ ParseKeeps

(***************************************************************************)
(* exec_curl                                                               *)
(***************************************************************************)
ExecKeeps == UNCHANGED <<args, i, reading_urls, config, fn_vars>>

\* let (major, minor) = get_curl_version()?, where curl does one of outputs
GetCurlVersionOf(outputs) ==
    /\ pc = "exec_curl"
    /\ \E out \in outputs :
         /\ probe_output' = <<out>>
         /\ spawned' = Append(spawned, <<"--version">>)
         /\ LET r == get_curl_version(out) IN
            IF r.ok
            THEN /\ version' = r.val
                 /\ pc' = "build"
                 /\ UNCHANGED <<stdout, error, exit_code>>
            ELSE /\ ExitErr(r.err)
                 /\ UNCHANGED version
    /\ UNCHANGED curl_args /\ ExecKeeps

GetCurlVersion == GetCurlVersionOf(ProbeOutputs)

\* From `let mut curl_args` to the end of the loop over the URLs.
BuildCurlArgs ==
    /\ pc = "build"
    /\ curl_args' = build_curl_args(config, version[1], version[2])
    /\ pc' = "invoke"
    /\ UNCHANGED <<probe_output, version, spawned, stdout, error, exit_code>>
    /\ ExecKeeps

IsDryRunNever == FALSE

\* if config.dry_run
IsDryRun == config.dry_run

DryRun ==
    /\ pc = "invoke" /\ IsDryRun
    /\ ExitPrinting(command_line(curl_args), 0)
    /\ UNCHANGED <<probe_output, version, curl_args, spawned>>
    /\ ExecKeeps

RunCurl ==
    /\ pc = "invoke" /\ ~IsDryRun
    /\ spawned' = Append(spawned, curl_args)
    /\ \E status \in RunOutcomes :
         IF status = "launch failed" THEN ExitErr("Failed to execute curl")
         ELSE IF status = "exit status: 0"
         THEN exit_code' = <<0>> /\ pc' = "exit" /\ UNCHANGED <<stdout, error>>
         ELSE ExitErr("curl exited with status: " \o status)
    /\ UNCHANGED <<probe_output, version, curl_args>>
    /\ ExecKeeps

Next ==
    \/ Main
    \/ ParseReadingUrls
    \/ ParseHelp
    \/ ParseVersion
    \/ ParseDryRun
    \/ ParseNoDecodeFilename
    \/ ParseCurlOptions
    \/ ParseOutput
    \/ ParseSeparator
    \/ ParseCurlOptionsEq
    \/ ParseOutputEq
    \/ ParseOutputGlued
    \/ ParseUnknownOption
    \/ ParseUrl
    \/ ParseEnd
    \/ GetCurlVersion
    \/ BuildCurlArgs
    \/ DryRun
    \/ RunCurl

Spec == Init /\ [][Next]_vars

(***************************************************************************)
(* The runs that build an argument list: the command lines without help,   *)
(* version, dry run or an unknown option, up to the built list, over the   *)
(* curl versions on both sides of each version test.                       *)
(***************************************************************************)
BuildTokens ==
    {"--no-decode-filename", "--curl-options", "--curl-options=--next",
     "--curl-options=-v", "-o", "--output=f", "-Og", "--", "a b", "h://x/%41"}

VersionOutputs ==
    Printed({"curl 6.99.0", "curl 7.65.0", "curl 7.66.0", "curl 7.82.0",
             "curl 7.83.1", "curl 8.15.0", "curl 8.16.0", "curl 9.0.0"})

InitBuild == RunInit(ArgLists(BuildTokens)) /\ FnIdle

ProbeCurlVersion == GetCurlVersionOf(VersionOutputs)

NextBuild ==
    \/ Main
    \/ ParseReadingUrls
    \/ ParseNoDecodeFilename
    \/ ParseCurlOptions
    \/ ParseOutput
    \/ ParseSeparator
    \/ ParseCurlOptionsEq
    \/ ParseOutputEq
    \/ ParseOutputGlued
    \/ ParseUrl
    \/ ParseEnd
    \/ ProbeCurlVersion
    \/ BuildCurlArgs

SpecBuild == InitBuild /\ [][NextBuild]_vars

(***************************************************************************)
(* The parser on one URL token, read before or after "--"                  *)
(***************************************************************************)
MaxTokenLen == 4

EncodeAlphabet == {" ", "%", "2", "0", "-", "a"}

UrlTokenLists ==
    {<<t>> : t \in Strings(EncodeAlphabet, MaxTokenLen)}
    \cup {<<"--", t>> : t \in Strings(EncodeAlphabet, MaxTokenLen)}

InitEncode == RunInit(UrlTokenLists) /\ FnIdle

NextEncode ==
    \/ Main
    \/ ParseReadingUrls
    \/ ParseSeparator
    \/ ParseUnknownOption
    \/ ParseUrl
    \/ ParseEnd

SpecEncode == InitEncode /\ [][NextEncode]_vars

(***************************************************************************)
(* percent_decode and get_url_filename as functions of their arguments     *)
(***************************************************************************)
MaxDecodeLen == 4

DecodeAlphabet == {"%", "0", "1", "2", "4", "5", "C", "F", "f", "z", "+"}

MaxUrlLen == 5

UrlAlphabet == {"/", ":", "?", "#", "a", "%", "4", "1"}

RunIdle ==
    /\ args = <<>>
    /\ pc = "idle"
    /\ i = 2
    /\ reading_urls = FALSE
    /\ config = ConfigNew
    /\ probe_output = <<>>
    /\ version = <<>>
    /\ curl_args = <<>>
    /\ spawned = <<>>
    /\ stdout = <<>>
    /\ error = <<>>
    /\ exit_code = <<>>

InitDecode ==
    /\ RunIdle
    /\ fn_name = ""
    /\ fn_in \in Strings(DecodeAlphabet, MaxDecodeLen)
    /\ fn_decode = TRUE
    /\ fn_out = ""

CallPercentDecode ==
    /\ fn_name = ""
    /\ fn_name' = "percent_decode"
    /\ fn_out' = percent_decode(fn_in)
    /\ UNCHANGED <<fn_in, fn_decode, run_vars>>

SpecDecode == InitDecode /\ [][CallPercentDecode]_vars

InitFilename ==
    /\ RunIdle
    /\ fn_name = ""
    /\ fn_in \in Strings(UrlAlphabet, MaxUrlLen)
    /\ fn_decode \in BOOLEAN
    /\ fn_out = ""

CallGetUrlFilename ==
    /\ fn_name = ""
    /\ fn_name' = "get_url_filename"
    /\ fn_out' = get_url_filename(fn_in, fn_decode)
    /\ UNCHANGED <<fn_in, fn_decode, run_vars>>

SpecFilename == InitFilename /\ [][CallGetUrlFilename]_vars

(***************************************************************************)
(* C2                                                                      *)
(***************************************************************************)
\* The text of s before the first "?" or "#".
CutAtQueryOrFragment(s) ==
    LET cuts == Occurrences(s, "?") \cup Occurrences(s, "#") IN
    IF cuts = {} THEN s ELSE SubSeq(s, 1, SetMin(cuts) - 1)

\* The filename C2 describes.
ClaimedFilename(u, decode) ==
    LET p == Find(u, "://")
        rest == IF p > 0 THEN From(u, p + 3) ELSE u
        path == CutAtQueryOrFragment(rest)
        slash == RFind(path, "/")
        name == From(path, slash + 1)
    IN  IF slash = 0 \/ name = "" THEN "index.html"
        ELSE IF decode THEN percent_decode(name) ELSE name

\* C2: for every URL string u, get_url_filename(u, decode) is index.html or
\* the (decoded, when decode is set) text after the last "/" of u without
\* its scheme (up to the first "://") and without what starts at the first
\* "?" or "#".
C2_FilenameAsClaimed ==
    fn_name = "get_url_filename" => fn_out = ClaimedFilename(fn_in, fn_decode)

(***************************************************************************)
(* C3                                                                      *)
(***************************************************************************)
IsHexDigit(c) == Len(c) = 1 /\ ToDigit(c) >= 0

\* The decoding C3 describes: a "%" that two hex digits do not follow is
\* emitted alone and the scan goes on right after it.
RECURSIVE ClaimedDecode(_)
ClaimedDecode(s) ==
    IF s = "" THEN ""
    ELSE IF Char(s, 1) = "%" /\ Len(s) >= 3
            /\ IsHexDigit(Char(s, 2)) /\ IsHexDigit(Char(s, 3))
    THEN LET byte == 16 * ToDigit(Char(s, 2)) + ToDigit(Char(s, 3))
             hex == ToUppercase(SubSeq(s, 2, 3))
         IN  (IF byte >= 32 /\ hex \notin {"2F", "5C"}
              THEN AsChar(byte)
              ELSE SubSeq(s, 1, 3))
             \o ClaimedDecode(From(s, 4))
    ELSE Char(s, 1) \o ClaimedDecode(From(s, 2))

\* C3: percent_decode decodes every "%" followed by two hex digits unless
\* the byte is below 0x20 or the digits spell 2F or 5C, emits a "%" that two
\* hex digits do not follow verbatim and scans the chars after it again as
\* ordinary input, and passes every other char through.
C3_DecodeAsClaimed ==
    fn_name = "percent_decode" => fn_out = ClaimedDecode(fn_in)

(***************************************************************************)
(* The command line as the usage text describes it, read apart from the    *)
(* parser's state: what an argument list asks for.                         *)
(***************************************************************************)
AskedNothing ==
    [urls |-> <<>>, options |-> <<>>, outputs |-> <<>>, dry_run |-> FALSE,
     no_decode |-> FALSE, separator |-> 0, end |-> "ok"]

\* toks from place k on; url_mode says a "--" came before; asked is what
\* the tokens before k asked for.  urls are the raw URL tokens, options the
\* --curl-options values and outputs the output values, each in command
\* line order; separator is the place of the first "--" in option position;
\* end is help or version (asked for), error (an option without its value,
\* an unknown option), "no url" (all tokens read, none a URL) or ok.
RECURSIVE Asked(_, _, _, _)
Asked(toks, k, url_mode, asked) ==
    IF k > Len(toks)
    THEN [asked EXCEPT !.end = IF asked.urls = <<>> THEN "no url" ELSE "ok"]
    ELSE LET t == toks[k]
             more == k < Len(toks)
         IN
         IF url_mode
         THEN Asked(toks, k + 1, TRUE, [asked EXCEPT !.urls = Append(@, t)])
         ELSE IF t = "--"
         THEN Asked(toks, k + 1, TRUE, [asked EXCEPT !.separator = k])
         ELSE IF t \in {"-h", "--help"} THEN [asked EXCEPT !.end = "help"]
         ELSE IF t \in {"-V", "--version"} THEN [asked EXCEPT !.end = "version"]
         ELSE IF t = "--dry-run"
         THEN Asked(toks, k + 1, FALSE, [asked EXCEPT !.dry_run = TRUE])
         ELSE IF t = "--no-decode-filename"
         THEN Asked(toks, k + 1, FALSE, [asked EXCEPT !.no_decode = TRUE])
         ELSE IF t = "--curl-options"
         THEN IF more
              THEN Asked(toks, k + 2, FALSE,
                         [asked EXCEPT !.options = Append(@, toks[k + 1])])
              ELSE [asked EXCEPT !.end = "error"]
         ELSE IF t \in {"-o", "-O", "--output"}
         THEN IF more
              THEN Asked(toks, k + 2, FALSE,
                         [asked EXCEPT !.outputs = Append(@, toks[k + 1])])
              ELSE [asked EXCEPT !.end = "error"]
         ELSE IF StartsWith(t, "--curl-options=")
         THEN Asked(toks, k + 1, FALSE,
                    [asked EXCEPT !.options = Append(@, From(t, 16))])
         ELSE IF StartsWith(t, "--output=")
         THEN Asked(toks, k + 1, FALSE,
                    [asked EXCEPT !.outputs = Append(@, From(t, 10))])
         ELSE IF StartsWith(t, "-o") \/ StartsWith(t, "-O")
         THEN Asked(toks, k + 1, FALSE,
                    [asked EXCEPT !.outputs = Append(@, From(t, 3))])
         ELSE IF StartsWith(t, "-") THEN [asked EXCEPT !.end = "error"]
         ELSE Asked(toks, k + 1, FALSE, [asked EXCEPT !.urls = Append(@, t)])

\* What the run's argument list asks for.
Request == Asked(args, 2, FALSE, AskedNothing)

\* parse_args was called and has returned Ok.
ParseReturnedOk == pc \in {"exec_curl", "build", "invoke"} \/ spawned # <<>>

\* exec_curl has built its argument list.
Built == pc = "invoke" \/ (pc = "exit" /\ curl_args # <<>>)

n_urls == Len(config.urls)

major == version[1]

minor == version[2]

\* Each space of s replaced by "%20", char by char.
RECURSIVE SpacesEncoded(_)
SpacesEncoded(s) ==
    IF s = "" THEN ""
    ELSE (IF Char(s, 1) = " " THEN "%20" ELSE Char(s, 1)) \o SpacesEncoded(From(s, 2))

(***************************************************************************)
(* C1                                                                      *)
(***************************************************************************)
HasHostCap ==
    Len(curl_args) >= 3 /\ SubSeq(curl_args, 2, 3) = <<"--parallel-max-host", "5">>

\* C1: the argument list holds --parallel-max-host 5 if and only if there
\* are two or more URLs and curl's version is 8.16 or later, whatever the
\* major version.
C1_HostCapFromVersion816 ==
    Built => (HasHostCap <=> (n_urls >= 2 /\ (major > 8 \/ (major = 8 /\ minor >= 16))))

(***************************************************************************)
(* C4                                                                      *)
(***************************************************************************)
\* C4: a "--" read in option position turns the reading-URLs mode on and is
\* not itself added to urls; once the mode is on it stays on, and every
\* token read in it, whatever it is, is whitespace-encoded and appended to
\* urls, with no exit for help, version or an unknown option.
C4_UrlModeIsPermanent ==
    [][/\ (AtToken /\ ~reading_urls /\ arg = "--")
          => (reading_urls' /\ config' = config /\ pc' = "parse_args" /\ i' = i + 1)
       /\ reading_urls => reading_urls'
       /\ (AtToken /\ reading_urls)
          => /\ config' = [config EXCEPT !.urls = Append(@, SpacesEncoded(arg))]
             /\ i' = i + 1
             /\ pc' = "parse_args"
             /\ <<stdout', error', exit_code'>> = <<stdout, error, exit_code>>
      ]_vars

\* After a "--", a second "--" and -h have been added to urls.
C4_Witness ==
    /\ reading_urls
    /\ \E k \in 1..n_urls : config.urls[k] = "--"
    /\ \E k \in 1..n_urls : config.urls[k] = "-h"

(***************************************************************************)
(* C5                                                                      *)
(***************************************************************************)
\* C5: parse_args returns a Config only with urls non-empty, and an
\* argument list with no URL token that asks for neither help nor version
\* and has no earlier error ends in the parse error for a missing URL.
C5_ParsedConfigHasUrls ==
    /\ ParseReturnedOk => config.urls # <<>>
    /\ (pc = "exit" /\ Len(args) >= 2 /\ Request.end = "no url")
       => (error = <<NoUrlError>> /\ exit_code = <<1>> /\ spawned = <<>>)

\* An argument list of options and a "--" only has ended in the error.
C5_Witness ==
    /\ pc = "exit"
    /\ args = <<PROGRAM_NAME, "--dry-run", "-Og", "--">>
    /\ error = <<NoUrlError>>

(***************************************************************************)
(* C9                                                                      *)
(***************************************************************************)
VersionQuery == <<"--version">>

ProbeFailed == probe_output # <<>> /\ ~get_curl_version(probe_output[1]).ok

\* C9: curl is started at most twice, the version query first and only
\* after parse_args returned Ok, the transfer at most once and only after
\* the probe returned a version with dry_run false; a usage error, help or
\* version starts nothing, a probe error no transfer, and a dry run the
\* version query alone.
C9_SubprocessOrder ==
    LET asked == Request IN
    /\ spawned \in {<<>>, <<VersionQuery>>, <<VersionQuery, curl_args>>}
    /\ spawned # <<>>
       => (asked.end = "ok" /\ pc \notin {"main", "parse_args"} /\ i > Len(args))
    /\ Len(spawned) = 2
       => (version # <<>> /\ ~ProbeFailed /\ Built /\ ~config.dry_run /\ ~asked.dry_run)
    /\ (pc = "exit" /\ asked.end # "ok") => spawned = <<>>
    /\ (pc = "exit" /\ ProbeFailed) => spawned = <<VersionQuery>>
    /\ (pc = "exit" /\ asked.end = "ok" /\ asked.dry_run)
       => spawned = <<VersionQuery>>

\* A run without --dry-run has started both, the transfer last.
C9_Witness ==
    /\ pc = "exit"
    /\ spawned = <<VersionQuery, curl_args>>
    /\ Len(curl_args) > 1

(***************************************************************************)
(* The layout of the built argument list, for a command line whose         *)
(* --curl-options values are options                                       *)
(***************************************************************************)
Count(seq, x) == Cardinality({k \in 1..Len(seq) : seq[k] = x})

Last(seq) == seq[Len(seq)]

NoClobberVersion == major >= 8 \/ (major = 7 /\ minor >= 83)

ParallelVersion == major >= 8 \/ (major = 7 /\ minor >= 66)

\* The length of a per-URL block: the fixed parameters, --no-clobber,
\* --output and its value, the --curl-options values, the URL.
BlockLen(options) ==
    8 + (IF NoClobberVersion THEN 1 ELSE 0) + 2 + Len(options) + 1

\* What is left before the first block once n blocks and n-1 separators
\* are taken off the list.
PrefixLen(options) == Len(curl_args) - n_urls * BlockLen(options) - (n_urls - 1)

Prefix(options) == SubSeq(curl_args, 1, PrefixLen(options))

BlockStart(options, k) == PrefixLen(options) + (k - 1) * (BlockLen(options) + 1) + 1

Block(options, k) ==
    SubSeq(curl_args, BlockStart(options, k), BlockStart(options, k) + BlockLen(options) - 1)

\* The element of block k that precedes the --curl-options values.
OutputValue(options, k) == Block(options, k)[BlockLen(options) - Len(options) - 1]

\* How often the user's own values put x in the list.
UserSupplied(options, x) ==
    n_urls * Count(options, x) + Count(config.urls, x)
    + Cardinality({k \in 1..n_urls : OutputValue(options, k) = x})

(***************************************************************************)
(* C6                                                                      *)
(***************************************************************************)
\* C6: when the output option was given, in any of its forms, the value of
\* its last occurrence is the --output value of every URL's block; when it
\* was not, each block's --output value is get_url_filename of its URL with
\* the configured decode flag.
C6_LastOutputWins ==
    Built =>
      LET asked == Request IN
      \A k \in 1..n_urls :
        OutputValue(asked.options, k)
          = IF asked.outputs # <<>>
            THEN Last(asked.outputs)
            ELSE get_url_filename(config.urls[k], config.decode_filename)

\* Two output options with different values were given, and the list is built.
C6_Witness ==
    /\ Built
    /\ Len(Request.outputs) = 2
    /\ Request.outputs[1] # Request.outputs[2]
    /\ OutputValue(Request.options, 1) = Request.outputs[2]

(***************************************************************************)
(* C7                                                                      *)
(***************************************************************************)
\* C7: the list is a prefix and then n blocks in input order, block k ending
\* with URL k; --next comes n-1 times, right before each of blocks 2..n;
\* --parallel comes once, in the prefix, when n >= 2 and the version is 7.66
\* or later, and not otherwise.
C7_BlocksAndSeparators ==
    Built =>
      LET options == Request.options IN
      /\ n_urls >= 1
      /\ PrefixLen(options) >= 0
      /\ Prefix(options) \in {<<>>, <<"--parallel">>,
                              <<"--parallel", "--parallel-max-host", "5">>}
      /\ \A k \in 1..n_urls : Last(Block(options, k)) = config.urls[k]
      /\ \A k \in 2..n_urls : curl_args[BlockStart(options, k) - 1] = "--next"
      /\ Count(curl_args, "--next") = (n_urls - 1) + UserSupplied(options, "--next")
      /\ Count(Prefix(options), "--parallel")
           = IF n_urls >= 2 /\ ParallelVersion THEN 1 ELSE 0
      /\ Count(curl_args, "--parallel")
           = Count(Prefix(options), "--parallel") + UserSupplied(options, "--parallel")

\* Three URLs and a curl that has --parallel.
C7_Witness ==
    /\ Built
    /\ n_urls = 3
    /\ config.urls[1] # config.urls[2]
    /\ version = <<7, 66>>
    /\ Count(curl_args, "--next") = 2

(***************************************************************************)
(* C8                                                                      *)
(***************************************************************************)
\* C8: every block is the fixed parameters, then --no-clobber if and only
\* if the version is 7.83 or later, then --output and the destination, then
\* the --curl-options values in command line order, then the URL.
C8_BlockLayout ==
    Built =>
      LET options == Request.options IN
      \A k \in 1..n_urls :
        Block(options, k)
          = <<"--fail", "--globoff", "--location", "--proto-default",
              "https", "--remote-time", "--retry", "5">>
            \o (IF NoClobberVersion THEN <<"--no-clobber">> ELSE <<>>)
            \o <<"--output", OutputValue(options, k)>>
            \o options
            \o <<config.urls[k]>>

\* Two different --curl-options values, and a curl that has --no-clobber.
C8_Witness ==
    /\ Built
    /\ Len(Request.options) = 2
    /\ Request.options[1] # Request.options[2]
    /\ version = <<7, 83>>

(***************************************************************************)
(* C10                                                                     *)
(***************************************************************************)
Occurs(s, pat) == Cardinality(Occurrences(s, pat))

\* The URL token of an argument list of SpecEncode.
RawUrl == args[Len(args)]

\* Every char of raw is in enc at its place shifted by two for each space
\* before it, a space as "%20"; enc has nothing else and no space.
EncodedInPlace(raw, enc) ==
    /\ Len(enc) = Len(raw) + 2 * Occurs(raw, " ")
    /\ Occurs(enc, " ") = 0
    /\ \A p \in 1..Len(raw) :
         LET q == p + 2 * Cardinality({j \in Occurrences(raw, " ") : j < p}) IN
         IF Char(raw, p) = " "
         THEN SubSeq(enc, q, q + 2) = "%20"
         ELSE Char(enc, q) = Char(raw, p)

\* C10 as stated: the URL stored for a token with N spaces has N
\* occurrences of "%20", no space, and its other chars untouched.
C10_ExactlyNEscapes ==
    ParseReturnedOk =>
      /\ Len(config.urls) = 1
      /\ EncodedInPlace(RawUrl, config.urls[1])
      /\ Occurs(config.urls[1], "%20") = Occurs(RawUrl, " ")

\* C10, amended: the URL stored for a token with N spaces has no space and
\* its other chars untouched, and its occurrences of "%20" are the N that
\* stand where the spaces were and those the token already had.
C10_SpacesEncoded ==
    ParseReturnedOk =>
      /\ Len(config.urls) = 1
      /\ EncodedInPlace(RawUrl, config.urls[1])
      /\ Occurs(config.urls[1], "%20") = Occurs(RawUrl, " ") + Occurs(RawUrl, "%20")

\* A token with two spaces, read after "--", has been stored.
C10_Witness ==
    /\ ParseReturnedOk
    /\ reading_urls
    /\ Occurs(RawUrl, " ") = 2
    /\ Occurs(config.urls[1], "%20") = 2

=============================================================================
